---- MODULE Spec2Model ----
(***************************************************************************)
(* A model of python3/packages/observer.py: configuration discovery, the   *)
(* section-keyed config reader, the start-up that builds the tracers and   *)
(* binds span / patch_module, the entry point main(), the rotating file    *)
(* exporter, the instrumentation of classes and modules, and the calls of  *)
(* the instrumented program with the spans they open and end.              *)
(*                                                                         *)
(* Python strings are sequences of tokens.  The characters the code looks  *)
(* at (".", ",", "=", "'", "/", "-") are tokens of their own; every other  *)
(* token is a run of characters none of which the code inspects.           *)
(***************************************************************************)
EXTENDS Integers, Sequences, FiniteSets, TLC

VARIABLES
    \* ---- the environment of the process
    dirKind,            \* what OBSERVER_CONFIG_DIR is on disk
    dirEntries,         \* the entries of that directory, in listing order
    allConf,            \* the file all.conf of the directory, or NoFile
    importsOk,          \* whether wrapt and opentelemetry can be imported
    exporterCtorOk,     \* whether ZipkinExporter.__init__ succeeds
    hookRaises,         \* the module names whose import-hook registration raises
    TRACESTATE,         \* os.environ["TRACESTATE"], or Unset
    clock,              \* the wall clock, in microseconds
    \* ---- the process at start-up and in main()
    pc,                 \* position of the main thread
    observer_configs,   \* module-level observer_configs
    span,               \* binding of the module-level name span
    patch_module,       \* binding of the module-level name patch_module
    module_names,       \* _init_tracing's module_names
    tracers,            \* _init_tracing's tracers built so far
    OTEL_RESOURCE_ATTRIBUTES, \* os.environ["OTEL_RESOURCE_ATTRIBUTES"], or Unset
    attached,           \* number of context.attach() calls made
    provider,           \* which tracer's provider is the global one, 0 for none
    hooks,              \* module names with a registered post-import hook
    exc,                \* the exception that ended start-up or main(), or "none"
    run,                \* main()'s decorated function run, or Undefined
    targetCode,         \* the exit code the target script asked for, -1 before it ran
    exitCode,           \* the exit code of the process, -1 while it runs
    output,             \* what the process wrote to stdout
    spans,              \* the spans started so far, by name
    received,           \* the spans the span processors were handed, in order
    \* ---- one FileZipkinExporter and the files it writes
    exporter,           \* the exporter object: bugtool_filename, bytes_written
    disk,               \* the files written: filename -> the records appended
    used,               \* every filename the callback returned, with its time
    exported,           \* len(data) of every batch exported so far
    setbacks,           \* how often the wall clock was set back
    \* ---- the traced program and its instrumentation
    classes,            \* class name -> its __dict__ members, in order
    functions,          \* module name -> its module-level functions, by name
    applied,            \* the modules span_of_tracers was applied to, in order
    frozen,             \* the modules whose attributes cannot be rebound
    calls,              \* how many calls of the program's callables were made
    lastCall,           \* the spans the last call started
    lastResult,         \* the last call: its arguments, what the original does
                        \* with them and what the caller saw
    frames,             \* the call stack of the program, outermost call first
    current,            \* the open spans, outermost first: the context's chain
    ended               \* the spans that were ended, in the order of their end

envVars == <<dirKind, dirEntries, allConf, importsOk, exporterCtorOk, hookRaises,
             TRACESTATE>>
startVars == <<pc, observer_configs, span, patch_module, module_names, tracers,
               OTEL_RESOURCE_ATTRIBUTES, attached, provider, hooks, exc>>
mainVars == <<run, targetCode, exitCode, output, spans, received>>
exportVars == <<exporter, disk, used, exported, setbacks>>
progVars == <<classes, functions, applied, frozen, calls, lastCall, lastResult,
              frames, current, ended>>
vars == <<envVars, clock, startVars, mainVars, exportVars, progVars>>

----------------------------------------------------------------------------
(* Bounds of the model.                                                    *)

\* the most *observer.conf files the configuration directory holds
MaxConfigs == 2

\* the most export calls made on the exporter
MaxExports == 3

\* the most times the wall clock is set back
MaxSetBacks == 1

\* the most applications of span_of_tracers to a module of the program
MaxApplications == 2

\* the most calls of the program's functions and methods
MaxCalls == 2

----------------------------------------------------------------------------
(* Python's str operations, on token sequences.                            *)

\* an environment variable that is not set
Unset == <<"<unset>">>

RECURSIVE LStrip(_, _)
LStrip(s, c) == IF s # <<>> /\ Head(s) = c THEN LStrip(Tail(s), c) ELSE s

RECURSIVE RStrip(_, _)
RStrip(s, c) ==
    IF s # <<>> /\ s[Len(s)] = c THEN RStrip(SubSeq(s, 1, Len(s) - 1), c) ELSE s

\* s.strip(c)
Strip(s, c) == RStrip(LStrip(s, c), c)

\* s.replace(c, "")
Remove(s, c) == SelectSeq(s, LAMBDA x : x # c)

\* c in s
Contains(s, c) == \E i \in DOMAIN s : s[i] = c

\* the number of occurrences of c in s
Count(s, c) == Cardinality({i \in DOMAIN s : s[i] = c})

\* s.split(c): never empty, "".split(",") is [""]
RECURSIVE Split(_, _)
Split(s, c) ==
    IF ~Contains(s, c) THEN <<s>>
    ELSE LET i == CHOOSE j \in DOMAIN s : s[j] = c /\ \A k \in 1..(j - 1) : s[k] # c
         IN  <<SubSeq(s, 1, i - 1)>> \o Split(SubSeq(s, i + 1, Len(s)), c)

\* dict.get(k, default)
Get(d, k, default) == IF k \in DOMAIN d THEN d[k] ELSE default

EmptyDict == <<>>

----------------------------------------------------------------------------
(* Files.  A config file is its text as configparser sees it: `syntax` is  *)
(* the class of the text, `kv` the key = value lines of a text that        *)
(* parses (keys lower-cased, values still quoted).                         *)

ENVVARS == "opentelemetry-python.readthedocs.io/en/latest/sdk/environment_variables.html"
DEFAULT_MODULES ==
    <<"LVHDSR", ",", "XenAPI", ",", "SR", ",", "SRCommand", ",", "util">>

ConfigFile(syntax, kv) == [syntax |-> syntax, kv |-> kv]

\* a path no file is at
NoFile == ConfigFile("absent", EmptyDict)

Ok(v) == [raised |-> "none", value |-> v]
Raise(e) == [raised |-> e, value |-> EmptyDict]

\* parser.read_string(f"[{header}]\n{text}"): what configparser does with the text
read_string(file, header) ==
    CASE file.syntax = "unparsable" -> Raise("ParsingError")
      [] file.syntax = "duplicate_option" -> Raise("DuplicateOptionError")
      [] file.syntax = "own_default_section" /\ header = "default"
            -> Raise("DuplicateSectionError")
      [] file.syntax = "own_default_section" -> Ok(EmptyDict)
      [] OTHER -> Ok(file.kv)

\* read_config(config_path, header): the mapping, or the exception that escapes
read_config(file, header) ==
    IF file = NoFile THEN Raise("FileNotFoundError")          \* open() fails
    ELSE LET parsed == read_string(file, header)
         IN  IF parsed.raised = "ParsingError" THEN Ok(EmptyDict)
             ELSE IF parsed.raised # "none" THEN parsed       \* not caught
             ELSE IF file.syntax = "bad_interpolation"        \* dict(parser[header])
                  THEN Raise("InterpolationSyntaxError")
             ELSE Ok([k \in DOMAIN parsed.value |-> Strip(parsed.value[k], "'")])

\* A directory entry: its name ends with "observer.conf" or not, it is a
\* regular file or not, and the file behind it.
Entry(suffix, isfile, file) == [suffix |-> suffix, isfile |-> isfile, file |-> file]

\* _get_configs_list(config_dir): the paths found, or the exception that escapes
_get_configs_list(kind, entries) ==
    CASE kind = "missing" -> Ok(<<>>)                         \* FileNotFoundError caught
      [] kind = "notdir" -> Raise("NotADirectoryError")
      [] kind = "denied" -> Raise("PermissionError")
      [] OTHER -> Ok(SelectSeq(entries, LAMBDA e : e.isfile /\ e.suffix))

----------------------------------------------------------------------------
(* The tracer factory.                                                     *)

Digit == <<"0", "1", "2", "3", "4", "5", "6", "7", "8", "9">>

\* str(n) for a natural number n
RECURSIVE Dec(_)
Dec(n) == IF n < 10 THEN <<Digit[n + 1]>> ELSE Dec(n \div 10) \o <<Digit[(n % 10) + 1]>>

\* the six digits of a microsecond count
Micro(us) ==
    <<Digit[((us \div 100000) % 10) + 1], Digit[((us \div 10000) % 10) + 1],
      Digit[((us \div 1000) % 10) + 1], Digit[((us \div 100) % 10) + 1],
      Digit[((us \div 10) % 10) + 1], Digit[(us % 10) + 1]>>

\* an isoformat cut at the second, as isoformat(timespec="seconds") gives
isoformat_seconds(t) == <<"T">> \o Dec(t \div 1000000) \o <<"+00:00">>

\* datetime.now(timezone.utc).isoformat() at wall-clock time t (microseconds):
\* the fraction of the second is printed only when it is not zero
isoformat(t) ==
    <<"T">> \o Dec(t \div 1000000)
        \o (IF t % 1000000 = 0 THEN <<>> ELSE <<".">> \o Micro(t % 1000000))
        \o <<"+00:00">>

\* os.getenv(name, default)
getenv(value, default) == IF value = Unset THEN default ELSE value

\* dict(item.split("=") for item in attrs.split(",") if "=" in item)
RECURSIVE dict_of_pairs(_)
dict_of_pairs(pairs) ==
    IF pairs = <<>> THEN Ok(EmptyDict)
    ELSE LET rest == dict_of_pairs(SubSeq(pairs, 1, Len(pairs) - 1))
             last == pairs[Len(pairs)]
         IN  IF rest.raised # "none" THEN rest
             ELSE IF Len(last) # 2 THEN Raise("ValueError")
             ELSE Ok((last[1] :> last[2]) @@ rest.value)

resource_attrs(config) ==
    LET items == Split(Get(config, "otel_resource_attributes", <<>>), ",")
        kept == SelectSeq(items, LAMBDA item : Contains(item, "="))
    IN  dict_of_pairs([i \in DOMAIN kept |-> Split(kept[i], "=")])

\* lines 167-171: service_name and host_uuid of get_new_output_filename
service_name(config) ==
    Get(config, "otel_service_name",
        Get(resource_attrs(config).value, <<"service.name">>, <<"unknown">>))

host_uuid(config) ==
    Get(resource_attrs(config).value, <<"xs.host.uuid">>, <<"unknown">>)

\* a get_new_output_filename that strips the quotes of TRACESTATE but keeps its dots
get_new_output_filename_keeps_dots(config, tracestate, now) ==
    Get(config, "xs_exporter_bugtool_endpoint", <<>>) \o <<"/">>
        \o service_name(config) \o <<"-">> \o host_uuid(config) \o <<"-">>
        \o Strip(getenv(tracestate, <<"unknown">>), "'") \o <<"-">>
        \o isoformat(now) \o <<".", "ndjson">>

\* get_new_output_filename(), a closure over config, trace_log_dir and the
\* resource attributes; tracestate and now are what it reads when called
get_new_output_filename(config, tracestate, now) ==
    LET trace_log_dir == Get(config, "xs_exporter_bugtool_endpoint", <<>>)
        trace_state == Remove(Strip(getenv(tracestate, <<"unknown">>), "'"), ".")
    IN  trace_log_dir \o <<"/">> \o service_name(config) \o <<"-">>
            \o host_uuid(config) \o <<"-">> \o trace_state \o <<"-">>
            \o isoformat(now) \o <<".", "ndjson">>

\* FileZipkinExporter.__init__
FileZipkinExporter(config, tracestate, now) ==
    [kind |-> "file", config |-> config,
     bugtool_filename |-> get_new_output_filename(config, tracestate, now),
     bytes_written |-> 0]

ZipkinExporter(endpoint) == [kind |-> "zipkin", endpoint |-> endpoint]

\* create_tracer_from_config(path) run in process state st =
\* [environ, attached, provider, tracestate, now, ctorOk]: the exception it
\* raises (or "none"), the tracer it returns and the process state it leaves.
\* The tracer is the span processors added to the TracerProvider this call
\* built and, as trace.get_tracer(__name__) asks the global provider for the
\* tracer, the call whose TracerProvider is the global one.
create_tracer_from_config(path, st) ==
    LET read == read_config(path.file, ENVVARS)
        config == read.value
        cfg_attrs == Get(config, "otel_resource_attributes", <<>>)
        st1 == IF cfg_attrs # <<>> THEN [st EXCEPT !.environ = cfg_attrs] ELSE st
        trace_log_dir == Get(config, "xs_exporter_bugtool_endpoint", <<>>)
        zipkin_endpoints == Get(config, "xs_exporter_zipkin_endpoints", <<>>)
        endpoints == IF zipkin_endpoints # <<>> THEN Split(zipkin_endpoints, ",") ELSE <<>>
        attrs == resource_attrs(config)
        st2 == [st1 EXCEPT !.attached = @ + 1]                 \* context.attach
        processors ==
            (IF trace_log_dir # <<>>
             THEN <<FileZipkinExporter(config, st.tracestate, st.now)>> ELSE <<>>)
            \o [i \in DOMAIN endpoints |-> ZipkinExporter(endpoints[i])]
        \* set_tracer_provider: the first provider registered stays the global one
        st3 == [st2 EXCEPT !.provider = IF @ = 0 THEN st.built + 1 ELSE @,
                           !.built = @ + 1]
    IN  IF read.raised # "none" THEN [raised |-> read.raised, st |-> st]
        ELSE IF attrs.raised # "none" THEN [raised |-> attrs.raised, st |-> st1]
        ELSE IF processors # <<>> /\ ~st.ctorOk
             THEN [raised |-> "ValueError", st |-> st2]
        ELSE [raised |-> "none", st |-> st3,
              tracer |-> [resource |-> attrs.value, processors |-> processors,
                         provider |-> st3.provider]]

----------------------------------------------------------------------------
(* Functions of the traced program and their instrumented forms.  A        *)
(* callable is its module and qualified name plus the wrapper layers put   *)
(* around it, innermost first; a layer is the span_name_prefix it was      *)
(* made with.                                                              *)

Callable(module, qualname) == [module |-> module, qualname |-> qualname, layers |-> <<>>]

\* a local name not assigned yet
Undefined == Callable(<<"<undefined>">>, <<>>)

\* the span name instrument_function gives a call of wrapped
span_name(wrapped, span_name_prefix) ==
    IF wrapped.module = <<>> /\ wrapped.qualname = <<>> THEN <<"str(wrapped)">>
    ELSE (IF span_name_prefix # <<>> THEN span_name_prefix \o <<":">> ELSE <<>>)
         \o wrapped.module \o <<":">> \o wrapped.qualname

\* instrument_function(wrapped): one more wrapper layer around wrapped
wrap(wrapped, span_name_prefix) ==
    [wrapped EXCEPT !.layers = Append(@, span_name_prefix)]

\* a span_noop that hands back the partial although it was given the function
span_noop_partial(wrapped, span_name_prefix) == wrap(wrapped, span_name_prefix)

\* span_noop(wrapped, span_name_prefix): wrapped itself; with wrapped None the
\* partial, which applied to a function gives span_noop(function, prefix)
span_noop(wrapped, span_name_prefix) == wrapped

\* span_of_tracers(wrapped, span_name_prefix) for a wrapped that is no module
span_of_tracers(wrapped, span_name_prefix) == wrap(wrapped, span_name_prefix)

\* patch_module_noop(_): nothing is registered
patch_module_noop(registered, module_name) == registered

\* _patch_module(module_name), lines 373-377: register the post-import hook
_patch_module(registered, module_name) == Append(registered, module_name)

\* the hook the name `patch_module` is bound to, called with module_name
call_patch_module(binding, registered, module_name) ==
    CASE binding = "patch_module_noop" -> patch_module_noop(registered, module_name)
      [] binding = "_patch_module" -> _patch_module(registered, module_name)

\* the decorator the name `span` is bound to, applied as
\* @span(span_name_prefix=prefix) or, with prefix "", as @span
decorate(binding, wrapped, span_name_prefix) ==
    CASE binding = "span_noop" -> span_noop(wrapped, span_name_prefix)
      [] binding = "span_of_tracers" -> span_of_tracers(wrapped, span_name_prefix)

\* The arguments of a call, as far as instrument_function looks at them:
\* what inspect.signature(wrapped).bind(*args, **kwargs) does with them
\* ("binds", or "mismatch": they do not fit the parameters) and whether
\* str(v) returns for every argument v (an object whose __str__ or __repr__
\* raises is not printable).
Args(bind, printable) == [bind |-> bind, printable |-> printable]

\* run(argv0): one str for the one parameter
PlainArgs == Args("binds", TRUE)

Returns(v) == [kind |-> "return", code |-> v]
Raises(e) == [kind |-> e, code |-> 0]

\* wrapped(*args, **kwargs), the original called directly: arguments that
\* do not fit are a TypeError of the interpreter and the body does not run;
\* otherwise the body runs once and ends in `outcome`
direct_call(args, outcome) ==
    IF args.bind = "mismatch" THEN [outcome |-> Raises("TypeError"), invoked |-> 0]
    ELSE [outcome |-> outcome, invoked |-> 1]

\* One call of an instrumented callable whose original ends in `outcome`
\* (a return or a raise): the spans its layers start, outermost first, and
\* the outcome the caller sees.  With no tracers no span is started.
call_spans(f, tr) ==
    IF tr = <<>> THEN <<>>
    ELSE [i \in 1..Len(f.layers) |->
             span_name(f, f.layers[Len(f.layers) + 1 - i])]

\* an instrument_function whose `with` block swallows what the original raises
instrument_function_swallow(f, tr, args, outcome) ==
    [spans |-> call_spans(f, tr),
     outcome |-> IF f.layers # <<>> /\ tr # <<>> /\ outcome.kind # "return"
                 THEN [kind |-> "return", code |-> 0] ELSE outcome,
     invoked |-> 1]

\* f(*args, **kwargs) for f with its wrapper layers, lines 296-328: the spans
\* started, the outcome the caller sees and how often the original ran.
\* Every layer starts its span, binds the arguments to the signature and
\* takes str() of each (lines 314-323, in no try) and only then calls what
\* it wraps (line 326); all layers see the same arguments, so what fails
\* fails in the outermost layer, inside its span.  Signature.bind raises a
\* TypeError as the interpreter does, with a message of its own; str(v)
\* raises what __str__ raises, RuntimeError here.
instrument_function(f, tr, args, outcome) ==
    LET direct == direct_call(args, outcome)
        outer == <<span_name(f, f.layers[Len(f.layers)])>>
    IN  IF f.layers = <<>> \/ tr = <<>>
        THEN [spans |-> <<>>, outcome |-> direct.outcome, invoked |-> direct.invoked]
        ELSE IF args.bind = "mismatch"
        THEN [spans |-> outer, invoked |-> 0, outcome |-> Raises("TypeError")]
        ELSE IF ~args.printable
        THEN [spans |-> outer, invoked |-> 0, outcome |-> Raises("RuntimeError")]
        ELSE [spans |-> call_spans(f, tr), outcome |-> direct.outcome,
              invoked |-> direct.invoked]

\* an engine that hands every span to the processors of every config file
span_ends_all(tr, names) ==
    UNION {{[span |-> names[n], config |-> i, processor |-> j] :
               n \in DOMAIN names, j \in DOMAIN tr[i].processors} : i \in DOMAIN tr}

\* The spans `names`, all started by tracers[0] (lines 312-313 and 333),
\* end: the span processors of the provider that tracer belongs to are
\* handed each of them.
span_ends(tr, names) ==
    IF tr = <<>> THEN {}
    ELSE {[span |-> names[n], config |-> tr[1].provider, processor |-> j] :
             n \in DOMAIN names, j \in DOMAIN tr[tr[1].provider].processors}

----------------------------------------------------------------------------
(* The inputs of the start-up: what the configuration directory holds.     *)

Quoted(v) == <<"'">> \o v \o <<"'">>

EmptyConf == ConfigFile("ok", EmptyDict)
AttrsConf ==
    ConfigFile("ok", "otel_resource_attributes" :>
        Quoted(<<"service.name", "=", "f", ",", "xs.host.uuid", "=", "u">>))
ExportConf ==
    ConfigFile("ok", ("xs_exporter_bugtool_endpoint" :> <<"/", "d">>)
                  @@ ("xs_exporter_zipkin_endpoints" :> <<"u1", ",", "u2">>))
BadAttrsConf ==
    ConfigFile("ok", "otel_resource_attributes" :> <<"a", "=", "b", "=", "c">>)
ModulesConf == ConfigFile("ok", "module_names" :> <<"m1", ",", "m2">>)
UnparsableConf == ConfigFile("unparsable", EmptyDict)
DuplicateConf == ConfigFile("duplicate_option", EmptyDict)
InterpolationConf == ConfigFile("bad_interpolation", EmptyDict)
OwnSectionConf == ConfigFile("own_default_section", EmptyDict)

DirEntries ==
    {Entry(TRUE, TRUE, f) :
        f \in {EmptyConf, AttrsConf, ExportConf, BadAttrsConf, UnparsableConf,
               DuplicateConf, InterpolationConf}}
    \cup {Entry(FALSE, TRUE, EmptyConf),      \* a file of another name
          Entry(TRUE, FALSE, EmptyConf)}      \* a directory named *observer.conf

AllConfs == {NoFile, ModulesConf, DuplicateConf, OwnSectionConf}

HookFailures == {{}, {<<"SRCommand">>, <<"m2">>}}

ExitCodes == {0, 1}

SeqsUpTo(S, n) == UNION {[1..k -> S] : k \in 0..n}

argv0 == <<"script", ".", "py">>
TargetLine == "Hello"
\* wall-clock readings (microseconds) a run starts at: on a full second, and not
ClockStarts == {5000000, 5000001}

\* no exporter is followed
NoExporter == [kind |-> "none", config |-> EmptyDict, bugtool_filename |-> <<>>,
               bytes_written |-> 0]

NoExport ==
    /\ exporter = NoExporter
    /\ disk = EmptyDict
    /\ used = <<>>
    /\ exported = <<>>
    /\ setbacks = 0

\* no call was made yet
NoCall == [args |-> PlainArgs, direct |-> direct_call(PlainArgs, Returns(0)),
           outcome |-> Returns(0), invoked |-> 0]

\* no module of the traced program is followed
NoProgram ==
    /\ classes = EmptyDict
    /\ functions = EmptyDict
    /\ applied = <<>>
    /\ frozen = {}
    /\ calls = 0
    /\ lastCall = <<>>
    /\ lastResult = NoCall
    /\ frames = <<>>
    /\ current = <<>>
    /\ ended = <<>>

----------------------------------------------------------------------------
(* Start-up (module level, lines 385-402) and main().                      *)

Init ==
    /\ dirKind \in {"missing", "notdir", "denied", "dir"}
    /\ dirEntries \in IF dirKind = "dir" THEN SeqsUpTo(DirEntries, MaxConfigs) ELSE {<<>>}
    /\ allConf \in IF dirKind = "dir" THEN AllConfs ELSE {NoFile}
    /\ importsOk \in BOOLEAN
    /\ exporterCtorOk \in BOOLEAN
    /\ hookRaises \in HookFailures
    /\ TRACESTATE = Unset
    /\ clock = 5000000
    /\ pc = "discover"
    /\ observer_configs = <<>>
    /\ span = "unbound"
    /\ patch_module = "unbound"
    /\ module_names = <<>>
    /\ tracers = <<>>
    /\ OTEL_RESOURCE_ATTRIBUTES = Unset
    /\ attached = 0
    /\ provider = 0
    /\ hooks = <<>>
    /\ exc = "none"
    /\ run = Undefined
    /\ targetCode = -1
    /\ exitCode = -1
    /\ output = <<>>
    /\ spans = <<>>
    /\ received = {}
    /\ NoExport
    /\ NoProgram

\* lines 385-387: observer_configs = _get_configs_list(observer_config_dir);
\* an exception here is outside every try and ends the import of the module
Discover ==
    /\ pc = "discover"
    /\ LET found == _get_configs_list(dirKind, dirEntries)
       IN  IF found.raised = "none"
           THEN /\ observer_configs' = found.value
                /\ pc' = "init"
                /\ UNCHANGED exc
           ELSE /\ exc' = found.raised
                /\ pc' = "crashed"
                /\ UNCHANGED observer_configs
    /\ UNCHANGED <<envVars, clock, span, patch_module, module_names, tracers,
                   OTEL_RESOURCE_ATTRIBUTES, attached, provider, hooks, mainVars,
                   exportVars, progVars>>

\* lines 401-402: the handler of the module-level try logs and binds nothing
InitFailed(e) ==
    /\ exc' = e
    /\ pc' = "main"
    /\ UNCHANGED <<span, patch_module>>

\* lines 112-113 and 400: no configs, the no-op pair is returned and bound
InitNoConfigs ==
    /\ pc = "init"
    /\ observer_configs = <<>>
    /\ span' = "span_noop"
    /\ patch_module' = "patch_module_noop"
    /\ pc' = "main"
    /\ UNCHANGED <<envVars, clock, observer_configs, module_names, tracers,
                   OTEL_RESOURCE_ATTRIBUTES, attached, provider, hooks, exc, mainVars,
                   exportVars, progVars>>

\* lines 115-130 and 400: the imports; an ImportError returns the no-op pair
InitImports ==
    /\ pc = "init"
    /\ observer_configs # <<>>
    /\ IF importsOk
       THEN /\ pc' = "all_conf"
            /\ UNCHANGED <<span, patch_module>>
       ELSE /\ span' = "span_noop"
            /\ patch_module' = "patch_module_noop"
            /\ pc' = "main"
    /\ UNCHANGED <<envVars, clock, observer_configs, module_names, tracers,
                   OTEL_RESOURCE_ATTRIBUTES, attached, provider, hooks, exc, mainVars,
                   exportVars, progVars>>

\* lines 132-138: all.conf gives module_names; only FileNotFoundError is caught
ReadAllConf ==
    /\ pc = "all_conf"
    /\ LET read == read_config(allConf, "default")
           config_dict == IF read.raised = "FileNotFoundError" THEN EmptyDict
                          ELSE read.value
       IN  IF read.raised \in {"none", "FileNotFoundError"}
           THEN /\ module_names' = Split(Get(config_dict, "module_names",
                                             DEFAULT_MODULES), ",")
                /\ pc' = "tracers"
                /\ UNCHANGED <<span, patch_module, exc>>
           ELSE /\ InitFailed(read.raised)
                /\ UNCHANGED module_names
    /\ UNCHANGED <<envVars, clock, observer_configs, tracers,
                   OTEL_RESOURCE_ATTRIBUTES, attached, provider, hooks, mainVars,
                   exportVars, progVars>>

\* line 258: one step of list(map(create_tracer_from_config, configs))
CreateTracer ==
    /\ pc = "tracers"
    /\ Len(tracers) < Len(observer_configs)
    /\ LET made == create_tracer_from_config(
                       observer_configs[Len(tracers) + 1],
                       [environ |-> OTEL_RESOURCE_ATTRIBUTES, attached |-> attached,
                        provider |-> provider, built |-> Len(tracers),
                        tracestate |-> TRACESTATE, now |-> clock,
                        ctorOk |-> exporterCtorOk])
       IN  /\ OTEL_RESOURCE_ATTRIBUTES' = made.st.environ
           /\ attached' = made.st.attached
           /\ provider' = made.st.provider
           /\ IF made.raised = "none"
              THEN /\ tracers' = Append(tracers, made.tracer)
                   /\ UNCHANGED <<pc, span, patch_module, exc>>
              ELSE /\ InitFailed(made.raised)
                   /\ UNCHANGED tracers
    /\ UNCHANGED <<envVars, clock, observer_configs, module_names, hooks, mainVars,
                   exportVars, progVars>>

\* lines 379-380: one step of `for m in module_names: _patch_module(m)`
PatchModules ==
    /\ pc = "tracers"
    /\ Len(tracers) = Len(observer_configs)
    /\ Len(hooks) < Len(module_names)
    /\ LET m == module_names[Len(hooks) + 1]
       IN  IF m \in hookRaises
           THEN /\ InitFailed("HookError")
                /\ UNCHANGED hooks
           ELSE /\ hooks' = _patch_module(hooks, m)
                /\ UNCHANGED <<pc, span, patch_module, exc>>
    /\ UNCHANGED <<envVars, clock, observer_configs, module_names, tracers,
                   OTEL_RESOURCE_ATTRIBUTES, attached, provider, mainVars,
                   exportVars, progVars>>

\* lines 382 and 400: span, patch_module = span_of_tracers, _patch_module
InitReturn ==
    /\ pc = "tracers"
    /\ Len(tracers) = Len(observer_configs)
    /\ Len(hooks) = Len(module_names)
    /\ span' = "span_of_tracers"
    /\ patch_module' = "_patch_module"
    /\ pc' = "main"
    /\ UNCHANGED <<envVars, clock, observer_configs, module_names, tracers,
                   OTEL_RESOURCE_ATTRIBUTES, attached, provider, hooks, exc, mainVars,
                   exportVars, progVars>>

\* lines 413-419: main() decorates run with @span(span_name_prefix=argv0);
\* an unbound name span is a NameError
MainDecorate ==
    /\ pc = "main"
    /\ IF span = "unbound"
       THEN /\ exc' = "NameError"
            /\ pc' = "crashed"
            /\ UNCHANGED run
       ELSE /\ run' = decorate(span, Callable(<<"__main__">>, <<"main.<locals>.run">>),
                               argv0)
            /\ pc' = "run"
            /\ UNCHANGED exc
    /\ UNCHANGED <<envVars, clock, observer_configs, span, patch_module, module_names,
                   tracers, OTEL_RESOURCE_ATTRIBUTES, attached, provider, hooks,
                   targetCode, exitCode, output, spans, received, exportVars,
                   progVars>>

\* lines 419-421: run(argv0) runs the target script, which prints its line and
\* either returns or leaves with sys.exit(code)
MainRun ==
    /\ pc = "run"
    /\ \E code \in ExitCodes, exits \in BOOLEAN :
          LET target == IF exits THEN [kind |-> "SystemExit", code |-> code]
                        ELSE [kind |-> "return", code |-> 0]
              call == instrument_function(run, tracers, PlainArgs, target)
          IN  /\ targetCode' = target.code
              /\ output' = Append(output, TargetLine)
              /\ spans' = spans \o call.spans
              /\ received' = received \cup span_ends(tracers, call.spans)
              /\ exitCode' = call.outcome.code
              /\ exc' = IF call.outcome.kind = "return" THEN exc ELSE call.outcome.kind
    /\ pc' = "done"
    /\ UNCHANGED <<envVars, clock, observer_configs, span, patch_module, module_names,
                   tracers, OTEL_RESOURCE_ATTRIBUTES, attached, provider, hooks, run,
                   exportVars, progVars>>

Next ==
    \/ Discover
    \/ InitNoConfigs
    \/ InitImports
    \/ ReadAllConf
    \/ CreateTracer
    \/ PatchModules
    \/ InitReturn
    \/ MainDecorate
    \/ MainRun

Spec == Init /\ [][Next]_vars

----------------------------------------------------------------------------
(* Claims about the start-up and main(), checked under Spec.               *)

AfterStartUp == pc \in {"main", "run", "done"} \/ (pc = "crashed" /\ exc = "NameError")

SampleCallables ==
    {Callable(<<"util">>, <<"f">>), Callable(<<"SR">>, <<"SR.attach">>),
     wrap(Callable(<<"util">>, <<"f">>), <<"p">>)}
SamplePrefixes == {<<>>, <<"p">>, argv0}
SampleModules == {<<"util">>, <<"m1">>}

\* C1: when configuration discovery finds no config file, span and
\* patch_module are the inert pair: span(f) and span(span_name_prefix=p)(f)
\* are f itself, patch_module(m) registers nothing, main()'s run is the
\* undecorated run, and running it starts no span and ends as the target does.
C1_NoConfigsInert ==
    (pc \in {"main", "run", "done"} /\ observer_configs = <<>>) =>
        /\ span = "span_noop"
        /\ patch_module = "patch_module_noop"
        /\ \A f \in SampleCallables, p \in SamplePrefixes : decorate(span, f, p) = f
        /\ \A m \in SampleModules : call_patch_module(patch_module, hooks, m) = hooks
        /\ hooks = <<>> /\ tracers = <<>> /\ provider = 0
        /\ pc \in {"run", "done"} =>
              run = Callable(<<"__main__">>, <<"main.<locals>.run">>)
        /\ pc = "done" => spans = <<>> /\ exitCode = targetCode

\* an existing directory whose entries all fail the filter, the target run
C1_Witness ==
    /\ pc = "done"
    /\ dirKind = "dir" /\ dirEntries # <<>> /\ observer_configs = <<>>
    /\ span = "span_noop" /\ exitCode = 1

\* C2: when config files are found and the engine is not built, whatever
\* went wrong, span and patch_module are bound to the no-op pair when
\* main() starts.
C2_FailureBindsNoops ==
    (pc = "main" /\ observer_configs # <<>> /\ span # "span_of_tracers") =>
        span = "span_noop" /\ patch_module = "patch_module_noop"

EngineInstalled ==
    /\ span = "span_of_tracers" /\ patch_module = "_patch_module"
    /\ Len(tracers) = Len(observer_configs)
    /\ hooks = module_names

NothingInEffect ==
    /\ span # "span_of_tracers" /\ patch_module # "_patch_module"
    /\ provider = 0 /\ attached = 0 /\ OTEL_RESOURCE_ATTRIBUTES = Unset
    /\ hooks = <<>>

\* C3: after start-up either the full engine is installed or nothing of it
\* is in effect (no provider registered, no context attached,
\* OTEL_RESOURCE_ATTRIBUTES untouched, no import hook registered).
C3_AllOrNothing == AfterStartUp => EngineInstalled \/ NothingInEffect

\* C4: with span bound (to the no-ops, or to the real implementation after
\* the tracers were built) main() never fails on its own account, the
\* process ends with the exit code the target asked for, its output is the
\* target's output, and the only exception leaving main() is the target's
\* SystemExit.
C4_TargetOutcomePropagates ==
    /\ (pc = "crashed" /\ exc = "NameError") => span = "unbound"
    /\ pc = "done" =>
          /\ exitCode = targetCode
          /\ output = <<TargetLine>>
          /\ exc \in {"none", "SystemExit"}

\* one config file with no endpoint and no directory, tracers built, the
\* target left with exit code 1 from inside the span of run
C4_Witness ==
    /\ pc = "done"
    /\ observer_configs = <<Entry(TRUE, TRUE, EmptyConf)>>
    /\ span = "span_of_tracers" /\ Len(tracers) = 1
    /\ spans = <<argv0 \o <<":", "__main__", ":", "main.<locals>.run">>>>
    /\ exitCode = 1 /\ exc = "SystemExit"

\* C9: read_config never raises: no exception of configparser ever leaves it.
C9_ReadConfigNeverRaises ==
    exc \notin {"DuplicateOptionError", "DuplicateSectionError",
                "InterpolationSyntaxError"}

\* C10: _get_configs_list never raises, whatever the directory is.
C10_DiscoveryNeverRaises ==
    ~(pc = "crashed" /\ exc \in {"NotADirectoryError", "PermissionError"})

----------------------------------------------------------------------------
(* The rotating file exporter: one FileZipkinExporter, built by            *)
(* create_tracer_from_config from one config file, and the export calls    *)
(* its span processor makes on it.                                         *)

PlainDirConf == ConfigFile("ok", "xs_exporter_bugtool_endpoint" :> <<"/", "d">>)
DottedConf ==
    ConfigFile("ok", ("xs_exporter_bugtool_endpoint" :> <<"/", "dt", ".", "d">>)
                  @@ ("otel_service_name" :> Quoted(<<"s", ".", "v">>)))
HostConf ==
    ConfigFile("ok", ("xs_exporter_bugtool_endpoint" :> <<"/", "d">>)
                  @@ ("otel_resource_attributes" :>
                        <<"service.name", "=", "f", ",", "xs.host.uuid", "=", "u">>))

ExporterConfs == {PlainDirConf, DottedConf, HostConf}

TraceStates == {Unset, Quoted(<<"a", ".", "b">>), <<".", ".", "/", "x">>}

\* len(data) of the batches exported
DataSizes == {1, 524288, 1048576, 1048577}

InitExport ==
    /\ dirKind = "dir"
    /\ \E f \in ExporterConfs : dirEntries = <<Entry(TRUE, TRUE, f)>>
    /\ allConf = NoFile
    /\ importsOk = TRUE
    /\ exporterCtorOk = TRUE
    /\ hookRaises = {}
    /\ TRACESTATE \in TraceStates
    /\ \E start \in ClockStarts :
          LET made == create_tracer_from_config(
                          dirEntries[1],
                          [environ |-> Unset, attached |-> 0, provider |-> 0,
                           built |-> 0, tracestate |-> TRACESTATE, now |-> start,
                           ctorOk |-> exporterCtorOk])
          IN  /\ clock = start + 1
              /\ tracers = <<made.tracer>>
              /\ OTEL_RESOURCE_ATTRIBUTES = made.st.environ
              /\ attached = made.st.attached
              /\ provider = made.st.provider
              /\ exporter = made.tracer.processors[1]
              /\ used = <<[filename |-> made.tracer.processors[1].bugtool_filename,
                           now |-> start]>>
    /\ pc = "exporting"
    /\ observer_configs = dirEntries
    /\ span = "span_of_tracers"
    /\ patch_module = "_patch_module"
    /\ module_names = Split(DEFAULT_MODULES, ",")
    /\ hooks = module_names
    /\ exc = "none"
    /\ run = Undefined
    /\ targetCode = -1
    /\ exitCode = -1
    /\ output = <<>>
    /\ spans = <<>>
    /\ received = {}
    /\ disk = EmptyDict
    /\ exported = <<>>
    /\ setbacks = 0
    /\ NoProgram

\* the sum of a sequence of sizes
RECURSIVE Sum(_)
Sum(sizes) == IF sizes = <<>> THEN 0 ELSE Head(sizes) + Sum(Tail(sizes))

\* open(filename, "a") and write(f"{datastr}\n"): one record more in the file
append_line(files, filename, size) ==
    IF filename \in DOMAIN files
    THEN [files EXCEPT ![filename] = Append(@, size)]
    ELSE (filename :> <<size>>) @@ files

\* a split that already happens when the counter reaches 1 MiB
rotate_at_threshold(exp, size, tracestate, now) ==
    IF exp.bytes_written + size >= 1024 * 1024
    THEN [exp EXCEPT !.bugtool_filename =
                         get_new_output_filename(exp.config, tracestate, now),
                     !.bytes_written = 0]
    ELSE [exp EXCEPT !.bytes_written = @ + size]

\* lines 211-214: the exporter after size more bytes were written at time now
rotate(exp, size, tracestate, now) ==
    IF exp.bytes_written + size > 1024 * 1024
    THEN [exp EXCEPT !.bugtool_filename =
                         get_new_output_filename(exp.config, tracestate, now),
                     !.bytes_written = 0]
    ELSE [exp EXCEPT !.bytes_written = @ + size]

\* FileZipkinExporter.export(spans), lines 195-216, for a batch that
\* serializes to size characters; the call takes a microsecond at least
Export ==
    /\ pc = "exporting"
    /\ Len(exported) < MaxExports
    /\ \E size \in DataSizes :
          /\ disk' = append_line(disk, exporter.bugtool_filename, size)
          /\ exporter' = rotate(exporter, size, TRACESTATE, clock)
          /\ exported' = Append(exported, size)
          /\ used' = IF exporter.bytes_written + size > 1024 * 1024
                     THEN Append(used, [filename |-> exporter'.bugtool_filename,
                                        now |-> clock])
                     ELSE used
    /\ clock' = clock + 1
    /\ UNCHANGED <<envVars, startVars, mainVars, progVars, setbacks>>

\* the wall clock is set back (an NTP step, settimeofday): datetime.now()
\* reads CLOCK_REALTIME
ClockSetBack ==
    /\ pc = "exporting"
    /\ setbacks < MaxSetBacks
    /\ \E d \in 1..2 : clock' = clock - d
    /\ setbacks' = setbacks + 1
    /\ UNCHANGED <<envVars, startVars, mainVars, progVars, exporter, disk, used,
                   exported>>

NextExport ==
    \/ Export
    \/ ClockSetBack

SpecExport == InitExport /\ [][NextExport]_vars

----------------------------------------------------------------------------
(* Claims about the file exporter, checked under SpecExport.               *)

Filenames == {used[i].filename : i \in DOMAIN used}

Stem(filename) == SubSeq(filename, 1, Len(filename) - 2)

\* C6 as stated: with '.' in TRACESTATE no filename has a '.' outside the
\* suffix ".ndjson".
C6_NoDotOutsideSuffix ==
    Contains(TRACESTATE, ".") =>
        \A i \in DOMAIN used : ~Contains(Stem(used[i].filename), ".")

\* C6, amended: TRACESTATE adds no '.' to a filename: the dots before the
\* suffix are exactly those of the log directory, the service name, the
\* host uuid (all from the config) and of the timestamp's fraction.
C6_TraceStateAddsNoDot ==
    \A i \in DOMAIN used :
        /\ SubSeq(used[i].filename, Len(used[i].filename) - 1,
                  Len(used[i].filename)) = <<".", "ndjson">>
        /\ Count(Stem(used[i].filename), ".") =
              Count(Get(exporter.config, "xs_exporter_bugtool_endpoint", <<>>), ".")
              + Count(service_name(exporter.config), ".")
              + Count(host_uuid(exporter.config), ".")
              + (IF used[i].now % 1000000 = 0 THEN 0 ELSE 1)

\* a TRACESTATE with dots, and a filename computed at a rotation
C6_Witness ==
    /\ Contains(TRACESTATE, ".")
    /\ Len(used) >= 2
    /\ exporter.bugtool_filename = used[Len(used)].filename

\* the records of a file, none for a file that does not exist
Records(files, filename) ==
    IF filename \in DOMAIN files THEN files[filename] ELSE <<>>

\* C13: the rotation invariant of FileZipkinExporter.  Every export appends
\* exactly one record to the file that is current when it starts and to no
\* other file, and adds the length of the data to bytes_written; if that sum
\* is greater than 1,048,576 the filename is recomputed by the callback and
\* bytes_written is 0 afterwards, otherwise the sum is kept and the filename
\* is unchanged.  So bytes_written is always within 0 .. 1,048,576, and
\* the filename changes only in an export that crosses the threshold.
C13_RotationInvariant ==
    /\ [](0 <= exporter.bytes_written /\ exporter.bytes_written <= 1024 * 1024)
    /\ [][exported' # exported =>
            LET size == exported'[Len(exported')]
                sum == exporter.bytes_written + size
                file == exporter.bugtool_filename
            IN  /\ exported' = Append(exported, size)
                /\ DOMAIN disk' = DOMAIN disk \cup {file}
                /\ disk'[file] = Append(Records(disk, file), size)
                /\ \A g \in DOMAIN disk \ {file} : disk'[g] = disk[g]
                /\ IF sum > 1024 * 1024
                   THEN /\ exporter'.bytes_written = 0
                        /\ Len(used') = Len(used) + 1
                        /\ used'[Len(used')].now = clock
                        /\ exporter'.bugtool_filename =
                               get_new_output_filename(exporter.config, TRACESTATE, clock)
                   ELSE /\ exporter'.bytes_written = sum
                        /\ exporter'.bugtool_filename = file
                        /\ used' = used]_vars
    /\ [][exporter'.bugtool_filename # exporter.bugtool_filename =>
            /\ Len(exported') = Len(exported) + 1
            /\ exporter.bytes_written + exported'[Len(exported')] > 1024 * 1024]_vars

\* an export that crossed the threshold, and after it an export that took
\* the counter to 1,048,576 exactly and kept the filename
C13_Witness ==
    /\ Len(used) >= 2
    /\ exporter.bytes_written = 1024 * 1024
    /\ exporter.bugtool_filename = used[Len(used)].filename
    /\ Len(exported) >= 2

----------------------------------------------------------------------------
(* Instrumentation of the traced program.  A class is the sequence of the  *)
(* members of its __dict__; a member is its name, the object bound to the  *)
(* name, whether getattr(aclass, name) is callable, whether setattr on it  *)
(* raises (readonly) and whether getattr on it raises (raises).            *)

Member(name, obj, callable, readonly, raises) ==
    [name |-> name, obj |-> obj, callable |-> callable, readonly |-> readonly,
     raises |-> raises]

\* line 347: the members autoinstrument_class leaves alone
Reserved == {"__getattr__", "__call__", "__init__"}

\* an autoinstrument_class loop that checks no name
RECURSIVE instrument_members_all(_, _, _)
instrument_members_all(aclass, members, i) ==
    IF i > Len(members) THEN [raised |-> "none", members |-> members, spans |-> <<>>]
    ELSE IF members[i].raises
         THEN [raised |-> "AttributeError", members |-> members, spans |-> <<>>]
    ELSE IF ~members[i].callable THEN instrument_members_all(aclass, members, i + 1)
    ELSE LET set == IF members[i].readonly THEN members
                    ELSE [members EXCEPT ![i].obj = wrap(@, <<>>)]
             rest == instrument_members_all(aclass, set, i + 1)
         IN  [rest EXCEPT !.spans =
                  <<<<"class.instrument:", aclass, ".", members[i].name>>>> \o @]

\* lines 337-352: the loop of autoinstrument_class over aclass.__dict__ from
\* member i on: the members it leaves, the spans it starts and the
\* exception that leaves it (a getattr that raises is in no try)
RECURSIVE instrument_members(_, _, _)
instrument_members(aclass, members, i) ==
    IF i > Len(members) THEN [raised |-> "none", members |-> members, spans |-> <<>>]
    ELSE IF members[i].raises
         THEN [raised |-> "AttributeError", members |-> members, spans |-> <<>>]
    ELSE IF ~members[i].callable THEN instrument_members(aclass, members, i + 1)
    ELSE LET set == IF members[i].name \in Reserved \/ members[i].readonly
                    THEN members        \* continue, or setattr raised and was logged
                    ELSE [members EXCEPT ![i].obj = wrap(@, <<>>)]
             rest == instrument_members(aclass, set, i + 1)
         IN  [rest EXCEPT !.spans =
                  <<<<"class.instrument:", aclass, ".", members[i].name>>>> \o @]

\* autoinstrument_class(aclass), lines 330-352
autoinstrument_class(aclass, members) ==
    LET done == instrument_members(aclass, members, 1)
    IN  [done EXCEPT !.spans = <<<<"auto_instrumentation.add: ", aclass>>>> \o @]

\* lines 358-362: the class loop of instrument_module over the classes
\* reachable from the module, from the i-th on; an exception that leaves
\* autoinstrument_class is caught and logged
RECURSIVE instrument_classes(_, _, _)
instrument_classes(names, cls, i) ==
    IF i > Len(names) THEN [classes |-> cls, spans |-> <<>>]
    ELSE LET done == autoinstrument_class(names[i], cls[names[i]])
             rest == instrument_classes(names, [cls EXCEPT ![names[i]] = done.members],
                                        i + 1)
         IN  [rest EXCEPT !.spans = done.spans \o @]

\* lines 365-366: every module-level function is rebound to its wrapped
\* form; the setattr is in no try, so on a module that refuses it the first
\* setattr raises and the loop is left
instrument_functions(fns, refuses) ==
    IF refuses /\ DOMAIN fns # {}
    THEN [raised |-> "AttributeError", functions |-> fns]
    ELSE [raised |-> "none", functions |-> [f \in DOMAIN fns |-> wrap(fns[f], <<>>)]]

\* instrument_module(module), lines 354-366, for a module whose reachable
\* classes are `names`, whose functions are fns and which refuses setattr
\* or not
instrument_module(names, cls, fns, refuses) ==
    LET done == instrument_classes(names, cls, 1)
        rebound == instrument_functions(fns, refuses)
    IN  [classes |-> done.classes, functions |-> rebound.functions,
         spans |-> done.spans, raised |-> rebound.raised]

\* The traced program: module SR defines class SR and function f; module
\* LVHDSR imports class SR and defines class LVHDSR and function g.
\* inspect.getmembers lists the classes reachable from a module by name.
Modules == {"SR", "LVHDSR"}
ModuleClasses == [SR |-> <<"SR">>, LVHDSR |-> <<"LVHDSR", "SR">>]

Method(aclass, name) == Callable(<<aclass>>, <<aclass, ".", name>>)

ProgramClasses(ro1, ro2, r) ==
    [SR |-> <<Member("__init__", Method("SR", "__init__"), TRUE, FALSE, FALSE),
              Member("attach", Method("SR", "attach"), TRUE, ro1, FALSE),
              Member("DRIVER_INFO", Method("SR", "DRIVER_INFO"), FALSE, FALSE, FALSE)>>,
     LVHDSR |-> <<Member("__getattr__", Method("LVHDSR", "__getattr__"), TRUE, FALSE, FALSE),
                  Member("__call__", Method("LVHDSR", "__call__"), TRUE, FALSE, FALSE),
                  Member("load", Method("LVHDSR", "load"), TRUE, FALSE, r),
                  Member("scan", Method("LVHDSR", "scan"), TRUE, ro2, FALSE)>>]

ProgramFunctions ==
    [SR |-> [f |-> Callable(<<"SR">>, <<"f">>)],
     LVHDSR |-> [g |-> Callable(<<"LVHDSR">>, <<"g">>)]]

\* list(map(create_tracer_from_config, configs)) from the i-th config on
RECURSIVE build_tracers(_, _, _)
build_tracers(configs, i, st) ==
    IF i > Len(configs) THEN [st |-> st, tracers |-> <<>>]
    ELSE LET made == create_tracer_from_config(configs[i], st)
             rest == build_tracers(configs, i + 1, made.st)
         IN  [rest EXCEPT !.tracers = <<made.tracer>> \o @]

InstrConfigs ==
    {<<Entry(TRUE, TRUE, EmptyConf)>>,
     <<Entry(TRUE, TRUE, AttrsConf), Entry(TRUE, TRUE, ExportConf)>>,
     <<Entry(TRUE, TRUE, ExportConf), Entry(TRUE, TRUE, PlainDirConf)>>}

\* the argument lists and the ends of the originals the program's calls have
ArgLists == {PlainArgs, Args("binds", FALSE), Args("mismatch", TRUE)}
Outcomes == {Returns(0), Raises("KeyError")}

\* a module object that refuses setattr: LVHDSR, or none
FrozenModules == {{}, {"LVHDSR"}}

\* the process once _init_tracing returned the real span and patch_module
InitInstr ==
    /\ dirKind = "dir"
    /\ dirEntries \in InstrConfigs
    /\ allConf = NoFile
    /\ importsOk = TRUE
    /\ exporterCtorOk = TRUE
    /\ hookRaises = {}
    /\ TRACESTATE = Unset
    /\ clock = 5000000
    /\ LET built == build_tracers(dirEntries, 1,
                        [environ |-> Unset, attached |-> 0, provider |-> 0,
                         built |-> 0, tracestate |-> TRACESTATE, now |-> clock,
                         ctorOk |-> exporterCtorOk])
       IN  /\ tracers = built.tracers
           /\ OTEL_RESOURCE_ATTRIBUTES = built.st.environ
           /\ attached = built.st.attached
           /\ provider = built.st.provider
    /\ pc = "program"
    /\ observer_configs = dirEntries
    /\ span = "span_of_tracers"
    /\ patch_module = "_patch_module"
    /\ module_names = Split(DEFAULT_MODULES, ",")
    /\ hooks = module_names
    /\ exc = "none"
    /\ run = Undefined
    /\ targetCode = -1
    /\ exitCode = -1
    /\ output = <<>>
    /\ spans = <<>>
    /\ received = {}
    /\ NoExport
    /\ \E ro1, ro2, r \in BOOLEAN : classes = ProgramClasses(ro1, ro2, r)
    /\ functions = ProgramFunctions
    /\ applied = <<>>
    /\ frozen \in FrozenModules
    /\ calls = 0
    /\ lastCall = <<>>
    /\ lastResult = NoCall
    /\ frames = <<>>
    /\ current = <<>>
    /\ ended = <<>>

\* span_of_tracers(wrapped=module), lines 368-371: what the post-import hook
\* of line 376 does when the module is imported, and what applying span to
\* a module does.  An exception that leaves instrument_module leaves
\* span_of_tracers and the hook, and so the import statement of the program.
ApplySpan ==
    /\ pc = "program"
    /\ Len(applied) < MaxApplications
    /\ \E m \in Modules :
          LET done == instrument_module(ModuleClasses[m], classes, functions[m],
                                        m \in frozen)
          IN  /\ classes' = done.classes
              /\ functions' = [functions EXCEPT ![m] = done.functions]
              /\ spans' = spans \o done.spans
              /\ received' = received \cup span_ends(tracers, done.spans)
              /\ applied' = Append(applied, m)
              /\ IF done.raised = "none" THEN UNCHANGED <<pc, exc>>
                 ELSE pc' = "crashed" /\ exc' = done.raised
    /\ UNCHANGED <<envVars, clock, observer_configs, span, patch_module, module_names,
                   tracers, OTEL_RESOURCE_ATTRIBUTES, attached, provider, hooks, run,
                   targetCode, exitCode, output, exportVars, frozen, calls, lastCall,
                   lastResult, frames, current, ended>>

\* the program calls a method through its class
CallMethod ==
    /\ pc = "program"
    /\ calls < MaxCalls
    /\ \E c \in DOMAIN classes : \E i \in DOMAIN classes[c] :
       \E args \in ArgLists, outcome \in Outcomes :
          /\ classes[c][i].callable /\ ~classes[c][i].raises
          /\ LET seen == instrument_function(classes[c][i].obj, tracers, args, outcome)
             IN  /\ lastCall' = seen.spans
                 /\ lastResult' = [args |-> args, direct |-> direct_call(args, outcome),
                                   outcome |-> seen.outcome, invoked |-> seen.invoked]
    /\ spans' = spans \o lastCall'
    /\ received' = received \cup span_ends(tracers, lastCall')
    /\ calls' = calls + 1
    /\ UNCHANGED <<envVars, clock, startVars, run, targetCode, exitCode, output,
                   exportVars, classes, functions, applied, frozen, frames, current,
                   ended>>

\* the program calls a module-level function through its module
CallFunction ==
    /\ pc = "program"
    /\ calls < MaxCalls
    /\ \E m \in DOMAIN functions : \E f \in DOMAIN functions[m] :
       \E args \in ArgLists, outcome \in Outcomes :
          LET seen == instrument_function(functions[m][f], tracers, args, outcome)
          IN  /\ lastCall' = seen.spans
              /\ lastResult' = [args |-> args, direct |-> direct_call(args, outcome),
                                outcome |-> seen.outcome, invoked |-> seen.invoked]
    /\ spans' = spans \o lastCall'
    /\ received' = received \cup span_ends(tracers, lastCall')
    /\ calls' = calls + 1
    /\ UNCHANGED <<envVars, clock, startVars, run, targetCode, exitCode, output,
                   exportVars, classes, functions, applied, frozen, frames, current,
                   ended>>

NextInstr ==
    \/ ApplySpan
    \/ CallMethod
    \/ CallFunction

SpecInstr == InitInstr /\ [][NextInstr]_vars

----------------------------------------------------------------------------
(* Claims about the instrumentation, checked under SpecInstr.              *)

\* how often autoinstrument_class ran on class c
Times(c) ==
    Cardinality({j \in DOMAIN applied :
                    \E k \in DOMAIN ModuleClasses[applied[j]] :
                        ModuleClasses[applied[j]][k] = c})

\* C7: however often a module is instrumented, each of its functions and
\* each class member carries one wrapper layer at most, and one call
\* starts one span at most.
C7_SingleLayer ==
    /\ \A c \in DOMAIN classes : \A i \in DOMAIN classes[c] :
          Len(classes[c][i].obj.layers) <= 1
    /\ \A m \in DOMAIN functions : \A f \in DOMAIN functions[m] :
          Len(functions[m][f].layers) <= 1
    /\ Len(lastCall) <= 1

\* C8 as stated: once a class is instrumented its three reserved members
\* are the objects they were and every other callable member is wrapped.
C8_ReservedKeptOthersWrapped ==
    \A c \in DOMAIN classes : Times(c) >= 1 =>
        \A i \in DOMAIN classes[c] :
            LET m == classes[c][i]
            IN  /\ m.name \in Reserved => m.obj = Method(c, m.name)
                /\ (m.name \notin Reserved /\ m.callable) => m.obj.layers # <<>>

\* C8, amended: the three reserved members and the members that are not
\* callable stay the objects they were; every other callable member has
\* one wrapper layer per instrumentation of its class, unless setattr on
\* it raises or the lookup of it or of a member before it raises: then
\* it stays the object it was.
C8_ReservedKept ==
    \A c \in DOMAIN classes : \A i \in DOMAIN classes[c] :
        LET m == classes[c][i]
            skipped == \/ m.name \in Reserved
                       \/ ~m.callable
                       \/ m.readonly
                       \/ \E j \in 1..i : classes[c][j].raises
        IN  /\ skipped => m.obj = Method(c, m.name)
            /\ ~skipped => m.obj = [Method(c, m.name) EXCEPT
                                       !.layers = [k \in 1..Times(c) |-> <<>>]]

\* class SR instrumented: __init__ kept, attach wrapped; class LVHDSR
\* instrumented: __getattr__ and __call__ kept, scan wrapped
C8_Witness ==
    /\ Times("SR") >= 1 /\ Times("LVHDSR") >= 1
    /\ classes["SR"][1].obj = Method("SR", "__init__")
    /\ classes["SR"][2].obj.layers # <<>>
    /\ classes["LVHDSR"][1].obj = Method("LVHDSR", "__getattr__")
    /\ classes["LVHDSR"][2].obj = Method("LVHDSR", "__call__")
    /\ classes["LVHDSR"][4].obj.layers # <<>>
    /\ calls >= 1

\* C11: a call of an instrumented callable runs the original as often as
\* the direct call with the same arguments does and ends as the direct call
\* ends: the same return value or the same exception; the layer adds no
\* exception of its own.  (Two TypeErrors count as the same exception.)
C11_SameOutcomeAsOriginal ==
    calls >= 1 =>
        /\ lastResult.outcome = lastResult.direct.outcome
        /\ lastResult.invoked = lastResult.direct.invoked

C14_MemberIsolation ==
    /\ exc = "none"
    /\ \A c \in DOMAIN classes : Times(c) >= 1 =>
          \A i \in DOMAIN classes[c] :
              LET m == classes[c][i]
              IN  (m.callable /\ m.name \notin Reserved /\ ~m.readonly /\ ~m.raises)
                      => m.obj.layers # <<>>
    /\ \A j \in DOMAIN applied : applied[j] \notin frozen =>
          \A f \in DOMAIN functions[applied[j]] :
              functions[applied[j]][f].layers # <<>>

----------------------------------------------------------------------------
(* The calls of the instrumented program, step by step.  A frame of the    *)
(* call stack is a wrapper layer of a callable (layer >= 1: one activation *)
(* of instrument_function, lines 297-328) or the body of the original      *)
(* (layer 0).  A span is the number it was started as, the span that was   *)
(* current when it was started (0 for none) and, once ended, how the block *)
(* it covers was left.                                                     *)

\* the most frames on the call stack
MaxDepth == 6

Frame(f, layer, id, token, phase, args) ==
    [callable |-> f, layer |-> layer, span |-> id, token |-> token, phase |-> phase,
     args |-> args, outcome |-> Returns(0)]

\* the span that is the current one in the context, 0 for none
current_span(cur) == IF cur = <<>> THEN 0 ELSE cur[Len(cur)].id

\* the callee's frame is gone: the frame below it, if it is a wrapper layer
\* waiting on line 326, has the outcome and leaves its with block; a body
\* goes on as it likes
deliver(stack, outcome) ==
    IF stack = <<>> \/ stack[Len(stack)].layer = 0 THEN stack
    ELSE [stack EXCEPT ![Len(stack)].phase = "exiting",
                       ![Len(stack)].outcome = outcome]

\* a with block that ends its span on a return only
end_span_on_return(fr, cur, done) ==
    IF fr.outcome.kind = "return"
    THEN [current |-> SubSeq(cur, 1, fr.token),
          ended |-> Append(done, [id |-> fr.span, parent |-> cur[Len(cur)].parent,
                                  status |-> fr.outcome.kind])]
    ELSE [current |-> cur, ended |-> done]

\* line 313, leaving `with tracer.start_as_current_span(span_name)`: the
\* context the block was entered in is restored and the span is ended,
\* however the block is left
end_span(fr, cur, done) ==
    [current |-> SubSeq(cur, 1, fr.token),
     ended |-> Append(done, [id |-> fr.span, parent |-> cur[Len(cur)].parent,
                             status |-> fr.outcome.kind])]

\* the hook of line 376 ran for the modules mods, in this order
RECURSIVE instrument_modules(_, _, _, _)
instrument_modules(mods, i, cls, fns) ==
    IF i > Len(mods) THEN [classes |-> cls, functions |-> fns]
    ELSE LET done == instrument_module(ModuleClasses[mods[i]], cls, fns[mods[i]], FALSE)
         IN  instrument_modules(mods, i + 1, done.classes,
                                [fns EXCEPT ![mods[i]] = done.functions])

\* the modules the program imported: SR alone, or LVHDSR and then SR
Imported == {<<"SR">>, <<"LVHDSR", "SR">>}

\* the callables of the program, as the program finds them
Callables ==
    {classes[c][i].obj : c \in {"SR"}, i \in {1, 2}}
        \cup {functions[m][f] : m \in {"SR"}, f \in DOMAIN functions["SR"]}

InitNest ==
    /\ dirKind = "dir"
    /\ dirEntries \in InstrConfigs
    /\ allConf = NoFile
    /\ importsOk = TRUE
    /\ exporterCtorOk = TRUE
    /\ hookRaises = {}
    /\ TRACESTATE = Unset
    /\ clock = 5000000
    /\ LET built == build_tracers(dirEntries, 1,
                        [environ |-> Unset, attached |-> 0, provider |-> 0,
                         built |-> 0, tracestate |-> TRACESTATE, now |-> clock,
                         ctorOk |-> exporterCtorOk])
       IN  /\ tracers = built.tracers
           /\ OTEL_RESOURCE_ATTRIBUTES = built.st.environ
           /\ attached = built.st.attached
           /\ provider = built.st.provider
    /\ pc = "calls"
    /\ observer_configs = dirEntries
    /\ span = "span_of_tracers"
    /\ patch_module = "_patch_module"
    /\ module_names = Split(DEFAULT_MODULES, ",")
    /\ hooks = module_names
    /\ exc = "none"
    /\ run = Undefined
    /\ targetCode = -1
    /\ exitCode = -1
    /\ output = <<>>
    /\ spans = <<>>
    /\ received = {}
    /\ NoExport
    /\ applied \in Imported
    /\ LET done == instrument_modules(applied, 1, ProgramClasses(FALSE, FALSE, FALSE),
                                      ProgramFunctions)
       IN  classes = done.classes /\ functions = done.functions
    /\ frozen = {}
    /\ calls = 0
    /\ lastCall = <<>>
    /\ lastResult = NoCall
    /\ frames = <<>>
    /\ current = <<>>
    /\ ended = <<>>

\* Entering layer `layer` of f: the body of the original for layer 0,
\* otherwise lines 300-313: the span is started as a child of the current
\* span and made the current one
enter(f, layer, args) ==
    IF layer = 0
    THEN /\ frames' = Append(frames, Frame(f, 0, 0, 0, "running", args))
         /\ UNCHANGED <<spans, current>>
    ELSE /\ frames' = Append(frames, Frame(f, layer, Len(spans) + 1, Len(current),
                                           "entered", args))
         /\ spans' = Append(spans, span_name(f, f.layers[layer]))
         /\ current' = Append(current, [id |-> Len(spans) + 1,
                                        parent |-> current_span(current)])

\* the program, or the body of a callable that is running, calls f
Call ==
    /\ pc = "calls"
    /\ calls < MaxCalls
    /\ Len(frames) < MaxDepth
    /\ IF frames = <<>> THEN TRUE ELSE frames[Len(frames)].layer = 0
    /\ \E f \in Callables, args \in ArgLists :
          /\ Len(f.layers) = 0 => args.bind = "binds"
          /\ enter(f, Len(f.layers), args)
    /\ calls' = calls + 1
    /\ UNCHANGED <<envVars, clock, startVars, run, targetCode, exitCode, output,
                   received, exportVars, classes, functions, applied, frozen,
                   lastCall, lastResult, ended>>

\* lines 314-326 of the wrapper on top: the arguments are bound and
\* captured; if that raises the with block is left, otherwise what the
\* layer wraps is called
Capture ==
    /\ pc = "calls"
    /\ frames # <<>>
    /\ LET fr == frames[Len(frames)]
       IN  /\ fr.layer >= 1 /\ fr.phase = "entered"
           /\ IF fr.args.bind = "mismatch" \/ ~fr.args.printable
              THEN /\ frames' = [frames EXCEPT
                                    ![Len(frames)].phase = "exiting",
                                    ![Len(frames)].outcome =
                                        IF fr.args.bind = "mismatch"
                                        THEN Raises("TypeError")
                                        ELSE Raises("RuntimeError")]
                   /\ UNCHANGED <<spans, current>>
              ELSE /\ Len(frames) < MaxDepth
                   /\ LET below == [frames EXCEPT ![Len(frames)].phase = "calling"]
                          f == fr.callable
                      IN  IF fr.layer = 1
                          THEN /\ frames' = Append(below,
                                      Frame(f, 0, 0, 0, "running", fr.args))
                               /\ UNCHANGED <<spans, current>>
                          ELSE /\ frames' = Append(below,
                                      Frame(f, fr.layer - 1, Len(spans) + 1,
                                            Len(current), "entered", fr.args))
                               /\ spans' = Append(spans,
                                      span_name(f, f.layers[fr.layer - 1]))
                               /\ current' = Append(current,
                                      [id |-> Len(spans) + 1,
                                       parent |-> current_span(current)])
    /\ UNCHANGED <<envVars, clock, startVars, run, targetCode, exitCode, output,
                   received, exportVars, classes, functions, applied, frozen, calls,
                   lastCall, lastResult, ended>>

\* the body on top of the stack returns or raises
BodyEnds ==
    /\ pc = "calls"
    /\ frames # <<>>
    /\ frames[Len(frames)].layer = 0
    /\ \E outcome \in Outcomes :
          frames' = deliver(SubSeq(frames, 1, Len(frames) - 1), outcome)
    /\ UNCHANGED <<envVars, clock, startVars, mainVars, exportVars, classes,
                   functions, applied, frozen, calls, lastCall, lastResult, current,
                   ended>>

\* lines 313 and 328 of the wrapper on top: the with block is left, by the
\* return of line 328 or by the exception, which goes on to the caller
Exit ==
    /\ pc = "calls"
    /\ frames # <<>>
    /\ LET fr == frames[Len(frames)]
           left == end_span(fr, current, ended)
       IN  /\ fr.layer >= 1 /\ fr.phase = "exiting"
           /\ current' = left.current
           /\ ended' = left.ended
           /\ received' = received \cup span_ends(tracers, <<spans[fr.span]>>)
           /\ frames' = deliver(SubSeq(frames, 1, Len(frames) - 1), fr.outcome)
    /\ UNCHANGED <<envVars, clock, startVars, run, targetCode, exitCode, output,
                   spans, exportVars, classes, functions, applied, frozen, calls,
                   lastCall, lastResult>>

NextNest ==
    \/ Call
    \/ Capture
    \/ BodyEnds
    \/ Exit

SpecNest == InitNest /\ [][NextNest]_vars

----------------------------------------------------------------------------
(* Claims about the spans of nested calls, checked under SpecNest.         *)

\* the wrapper layers on the call stack, outermost first
Wrappers == SelectSeq(frames, LAMBDA fr : fr.layer >= 1)

\* C15: the open spans are, in order, the spans of the instrumented calls
\* in progress, each the child of the one below it; a body runs with the
\* spans of all its wrapper layers open, the innermost being the current
\* span; every span started is open or was ended exactly once; a span
\* ends before its parent does; and when no call is in progress no span is
\* open.
C15_SpansFollowCalls ==
    /\ Len(current) = Len(Wrappers)
    /\ \A i \in DOMAIN current :
          /\ current[i].id = Wrappers[i].span
          /\ current[i].parent = IF i = 1 THEN 0 ELSE current[i - 1].id
    /\ \A p \in DOMAIN frames :
          LET fr == frames[p]
              n == Len(fr.callable.layers)
          IN  fr.layer = 0 =>
                /\ p > n
                /\ \A k \in 1..n :
                      /\ frames[p - k].callable = fr.callable
                      /\ frames[p - k].layer = k
                      /\ frames[p - k].phase = "calling"
                      /\ \E i \in DOMAIN current : current[i].id = frames[p - k].span
                /\ (n >= 1 /\ p = Len(frames)) =>
                      current_span(current) = frames[p - 1].span
    /\ Len(spans) = Len(current) + Len(ended)
    /\ \A n \in 1..Len(spans) :
          Cardinality({i \in DOMAIN ended : ended[i].id = n})
              + Cardinality({i \in DOMAIN current : current[i].id = n}) = 1
    /\ \A i, j \in DOMAIN ended : i < j => ended[j].parent # ended[i].id
    /\ frames = <<>> => current = <<>>

\* all calls are over; a span was ended by an exception, and a span that
\* was opened inside another was ended before it
C15_Witness ==
    /\ frames = <<>> /\ calls >= 2
    /\ \E i \in DOMAIN ended : ended[i].status # "return"
    /\ \E i, j \in DOMAIN ended :
          /\ i < j /\ ended[i].parent = ended[j].id
          /\ spans[ended[i].id] # spans[ended[j].id]

====
